---- MODULE Spec2Model ----
(***************************************************************************)
(* MultiTasksManager (src/deserted/multi_tasks_manager.py): register       *)
(* builds one Thread per task, runMultiTasks starts them all, joins them   *)
(* all, drains the result Queue and resets the manager.  The calling       *)
(* context and every task thread are separate processes of the model; one  *)
(* action is one step of one of them.                                      *)
(***************************************************************************)
EXTENDS Integers, Sequences, FiniteSets, TLC

\* ----------------------------------------------------------------- bounds
\* Largest number of tasks registered and not yet consumed.
MaxTasks == 3
\* Largest integer passed as taskType (0 and 1 are the recognised ones).
MaxMode == 2
\* Largest number of pending tasks where every log_level value is tried.
MaxLogTasks == 2
\* Largest number of pending tasks under the fair scheduler.
MaxLiveTasks == 2

\* ------------------------------------------------------ program constants
TASK_NO_RETURN == 0
TASK_RETURN_VALUES == 1
\* taskType=None, the default of runMultiTasks.
NONE == -1

\* ---------------------------------------------------------- Python values
\* A Python value that a callable returns or that str() renders; the tag
\* keeps an int and a str apart.
PyInt(n) == [t |-> "int", i |-> n, s |-> ""]
PyStr(x) == [t |-> "str", i |-> 0, s |-> x]

\* An exception object: its class and its args tuple.
Exc(type, args) == [type |-> type, args |-> args]
NoExc == Exc("", <<>>)

\* The exception's class name in place of its message.
StrOfExceptionType(e) == PyStr(e.type)

\* str(originException): '' with no args, the argument itself with one.
StrOfException(e) ==
    IF Len(e.args) = 0 THEN PyStr("") ELSE PyStr(e.args[1])

\* A registered callable, by what calling it does.
FunReturns(name, v) == [name |-> name, raises |-> FALSE, ret |-> PyInt(v), exc |-> NoExc]
FunRaises(name, e) == [name |-> name, raises |-> TRUE, ret |-> PyInt(0), exc |-> e]

\* The register calls the caller may make: (task_fun, task_kwargs['log_level']
\* or "absent").
RegisterInputs ==
    { <<FunReturns("one", 1), "absent">>,
      <<FunReturns("three", 3), "debug">>,
      <<FunRaises("boom", Exc("ValueError", <<"boom">>)), "absent">> }

\* The taskType arguments the caller may pass.
Modes == {NONE} \cup (0..MaxMode)

\* ------------------------------------------------------------------ state
VARIABLES
    tasks,        \* self.tasks: the Thread objects, in registration order
    taskIndex,    \* self.taskIndex
    taskResults,  \* self.taskResults: the Queue, head first
    pc,           \* where the calling context is
    i,            \* cursor of the start loop and of the join loop
    taskType,     \* runMultiTasks' taskType after defaulting
    returnCodes,  \* _checkTaskResult's returnCodes list
    results,      \* _checkTaskResult's results dict (index -> (rc, result))
    lastRun       \* how the last runMultiTasks call ended, until the next call

vars == <<tasks, taskIndex, taskResults, pc, i, taskType, returnCodes, results, lastRun>>

\* The caller is outside runMultiTasks.
Outside == {"idle", "returned", "raised"}

\* A thread that carries the index after the counter's value.
NewThreadIndexAhead(fun, level, index) ==
    [ fun |-> fun, log_level |-> level, index |-> index + 1, st |-> "new",
      putPos |-> 0, calls |-> 0, logged |-> "none", escaped |-> FALSE ]

\* Thread(target=self._run_task, args=(task_fun, task_args, task_kwargs),
\* kwargs={TASK_INDEX: self.taskIndex}), not started yet.
NewThread(fun, level, index) ==
    [ fun |-> fun, log_level |-> level, index |-> index,
      st |-> "new",         \* new, running, called, put, done
      putPos |-> 0,         \* place of its record among the batch's puts
      calls |-> 0,          \* times task_fun was invoked
      logged |-> "none",    \* failure diagnostic: none, exception, debug
      escaped |-> FALSE ]   \* an exception left _run_task

\* lastRun: kind is none, returned or raised; batch is self.tasks as the call
\* left them (before _setup), drained the number of records the drain loop
\* got.  A register call forgets all of it but kind and error.  arg is the
\* taskType argument of the call in progress or just returned.
NoRun == [kind |-> "none", mode |-> NONE, error |-> "", retBool |-> TRUE,
          retList |-> <<>>, batch |-> <<>>, drained |-> 0, arg |-> NONE]

\* self._setup()
SetupTasks == <<>>
SetupIndex == 1
SetupResults == <<>>

Init ==
    /\ tasks = SetupTasks
    /\ taskIndex = SetupIndex
    /\ taskResults = SetupResults
    /\ pc = "idle"
    /\ i = 1
    /\ taskType = TASK_NO_RETURN
    /\ returnCodes = <<>>
    /\ results = <<>>
    /\ lastRun = NoRun

\* -------------------------------------------------------------- register
Register(fun, level) ==
    /\ pc \in Outside
    /\ Len(tasks) < MaxTasks
    /\ tasks' = Append(tasks, NewThread(fun, level, taskIndex))
    /\ taskIndex' = taskIndex + 1
    /\ pc' = "idle"
    /\ lastRun' = [NoRun EXCEPT !.kind = lastRun.kind, !.error = lastRun.error]
    /\ UNCHANGED <<taskResults, i, taskType, returnCodes, results>>

\* ---------------------------------------------------------- runMultiTasks
\* A check that accepts TASK_NO_RETURN alone.
ModeValidStrict(t) == t = TASK_NO_RETURN

\* taskType in (TASK_NO_RETURN, TASK_RETURN_VALUES)
ModeValid(t) == t \in {TASK_NO_RETURN, TASK_RETURN_VALUES}

\* A default that falls to TASK_RETURN_VALUES.
DefaultModeReturnValues(mode) == IF mode = NONE THEN TASK_RETURN_VALUES ELSE mode

\* if taskType is None: taskType = TASK_NO_RETURN
DefaultMode(mode) == IF mode = NONE THEN TASK_NO_RETURN ELSE mode

\* What the rejection of a bad taskType raises: building errorMsg reads
\* msgs.TASK_TYPE_FAILURE, and the module binds no name msgs, so the
\* NameError leaves runMultiTasks before the raise statement is reached.
RejectedModeError == "NameError"

\* An error swallowed and turned into a False result.
RaisedAsFalse(mode, error) ==
    [kind |-> "returned", mode |-> mode, error |-> "", retBool |-> FALSE,
     retList |-> <<>>, batch |-> tasks, drained |-> 0, arg |-> NONE]

\* How a call that raises ends: the error, and no value.
Raised(mode, error) ==
    [kind |-> "raised", mode |-> mode, error |-> error, retBool |-> TRUE,
     retList |-> <<>>, batch |-> tasks, drained |-> 0, arg |-> NONE]

\* A rejection that cleans up before raising.
RejectedManagerReset == <<SetupTasks, SetupIndex, SetupResults>>

\* The manager as the rejection leaves it: the raise is the first statement
\* to touch anything, and it touches nothing of self.
RejectedManager == <<tasks, taskIndex, taskResults>>

\* The call begins: default and validate taskType, then enter the start loop
\* (both loops fall through at once when no task is registered).
RunBegin(mode) ==
    /\ pc \in Outside
    /\ LET t == DefaultMode(mode) IN
        IF ~ModeValid(t)
        THEN /\ pc' = "raised"
             /\ lastRun' = Raised(mode, RejectedModeError)
             /\ tasks' = RejectedManager[1]
             /\ taskIndex' = RejectedManager[2]
             /\ taskResults' = RejectedManager[3]
             /\ UNCHANGED <<i, taskType, returnCodes, results>>
        ELSE /\ taskType' = t
             /\ pc' = IF Len(tasks) = 0 THEN "reducing" ELSE "starting"
             /\ i' = 1
             /\ lastRun' = [NoRun EXCEPT !.arg = mode]
             /\ UNCHANGED <<tasks, taskIndex, taskResults, returnCodes, results>>

\* A start() that accepts a thread whatever its past.
StartableAgain(th) == TRUE

\* Thread.start() refuses a thread that was started before.
Startable(th) == th.st = "new"

\* for task in self.tasks: task.start()  -- one iteration that succeeds
StartTask ==
    /\ pc = "starting"
    /\ Startable(tasks[i])
    /\ tasks' = [tasks EXCEPT ![i].st = "running"]
    /\ IF i = Len(tasks)
       THEN pc' = "joining" /\ i' = 1
       ELSE pc' = "starting" /\ i' = i + 1
    /\ UNCHANGED <<taskIndex, taskResults, taskType, returnCodes, results, lastRun>>

\* task.start() raises: the thread was started by an earlier call, or the
\* platform cannot start one more thread.  Nothing is cleaned up.
StartTaskFails ==
    /\ pc = "starting"
    /\ pc' = "raised"
    /\ lastRun' = Raised(taskType,
                         IF Startable(tasks[i]) THEN "can't start new thread"
                         ELSE "threads can only be started once")
    /\ i' = 1
    /\ taskType' = TASK_NO_RETURN
    /\ UNCHANGED <<tasks, taskIndex, taskResults, returnCodes, results>>

\* A join that returns only for a thread that ended without an exception.
JoinReadyOnSuccess(th) == th.st = "done" /\ ~th.escaped

\* A join that returns for any started thread, finished or not.
JoinReadyEarly(th) == th.st # "new"

\* Thread.join() returns once the thread has terminated.
JoinReady(th) == th.st = "done"

\* for task in self.tasks: task.join()  -- one iteration
JoinTask ==
    /\ pc = "joining"
    /\ JoinReady(tasks[i])
    /\ IF i = Len(tasks)
       THEN pc' = "reducing" /\ i' = 1
       ELSE pc' = "joining" /\ i' = i + 1
    /\ UNCHANGED <<tasks, taskIndex, taskResults, taskType, returnCodes, results, lastRun>>

\* A store keyed by order of arrival in place of the task index.
DictPutByArrival(d, k, v) ==
    [x \in (DOMAIN d) \cup {Cardinality(DOMAIN d) + 1} |->
        IF x = Cardinality(DOMAIN d) + 1 THEN v ELSE d[x]]

\* results[index] = (rc, result)
DictPut(d, k, v) == [x \in (DOMAIN d) \cup {k} |-> IF x = k THEN v ELSE d[x]]

\* The keys in descending order.
RECURSIVE SortedDescending(_)
SortedDescending(S) ==
    IF S = {} THEN <<>>
    ELSE LET m == CHOOSE x \in S : \A y \in S : x >= y
         IN <<m>> \o SortedDescending(S \ {m})

\* sorted(keys)
RECURSIVE Sorted(_)
Sorted(S) ==
    IF S = {} THEN <<>>
    ELSE LET m == CHOOSE x \in S : \A y \in S : x <= y
         IN <<m>> \o Sorted(S \ {m})

\* any(returnCodes) in place of all(returnCodes).
AnyOf(codes) == \E n \in 1..Len(codes) : codes[n]

\* all(returnCodes)
All(codes) == \A n \in 1..Len(codes) : codes[n]

\* [results[key] for key in sorted(results.keys())]
OrderedResults(d) ==
    LET keys == Sorted(DOMAIN d) IN [n \in 1..Len(keys) |-> d[keys[n]]]

\* The drain loop run to its end on queue q from the locals (codes, d): the
\* returnCodes list and the results dict it leaves.
RECURSIVE DrainAll(_, _, _)
DrainAll(q, codes, d) ==
    IF q = <<>> THEN [codes |-> codes, dict |-> d]
    ELSE DrainAll(Tail(q), Append(codes, Head(q).rc),
                  DictPut(d, Head(q).index, <<Head(q).rc, Head(q).result>>))

\* What _checkTaskResult returns for taskType t from its two locals: the
\* boolean (b) or the list (l).
ReturnValue(t, codes, d) ==
    [b |-> IF t = TASK_NO_RETURN THEN All(codes) ELSE TRUE,
     l |-> IF t = TASK_NO_RETURN THEN <<>> ELSE OrderedResults(d)]

\* while not self.taskResults.empty(): one iteration of the drain loop
Drain ==
    /\ pc = "reducing"
    /\ taskResults # <<>>
    /\ LET item == Head(taskResults) IN
        /\ returnCodes' = Append(returnCodes, item.rc)
        /\ results' = DictPut(results, item.index, <<item.rc, item.result>>)
    /\ taskResults' = Tail(taskResults)
    /\ UNCHANGED <<tasks, taskIndex, pc, i, taskType, lastRun>>

\* A run that returns without calling _setup.
AfterRunNoSetup == <<tasks, taskIndex, taskResults>>

\* A reset that leaves the index counter alone.
AfterRunKeepsIndex == <<SetupTasks, taskIndex, SetupResults>>

\* The manager after self._setup() at the end of runMultiTasks.
AfterRun == <<SetupTasks, SetupIndex, SetupResults>>

\* The queue is empty: _checkTaskResult returns, _setup resets the manager,
\* runMultiTasks returns the result.
Finish ==
    /\ pc = "reducing"
    /\ taskResults = <<>>
    /\ lastRun' = [kind |-> "returned", mode |-> taskType, error |-> "",
                   retBool |-> ReturnValue(taskType, returnCodes, results).b,
                   retList |-> ReturnValue(taskType, returnCodes, results).l,
                   batch |-> tasks, drained |-> Len(returnCodes), arg |-> lastRun.arg]
    /\ tasks' = AfterRun[1]
    /\ taskIndex' = AfterRun[2]
    /\ taskResults' = AfterRun[3]
    /\ pc' = "returned"
    /\ i' = 1
    /\ taskType' = TASK_NO_RETURN
    /\ returnCodes' = <<>>
    /\ results' = <<>>

\* -------------------------------------------------------------- _run_task
\* log_level = task_kwargs['log_level'] if present else 'error'
LogLevel(kw) == IF kw = "absent" THEN "error" ELSE kw

\* A comparison that skips the lower-casing.
LowerIdentity(x) == x

\* log_level.lower()
Lower(x) == IF x = "ERROR" THEN "error" ELSE IF x = "DEBUG" THEN "debug" ELSE x

\* result = task_fun(*task_args, **task_kwargs): the callable runs to its end
TaskCall(k) ==
    /\ k \in 1..Len(tasks)
    /\ tasks[k].st = "running"
    /\ tasks' = [tasks EXCEPT ![k].st = "called", ![k].calls = @ + 1]
    /\ UNCHANGED <<taskIndex, taskResults, pc, i, taskType, returnCodes, results, lastRun>>

\* The record with the first task's index whatever the task.
CompletionRecordFirstIndex(th) ==
    IF th.fun.raises
    THEN [index |-> 1, rc |-> FALSE, result |-> StrOfException(th.fun.exc)]
    ELSE [index |-> 1, rc |-> TRUE, result |-> th.fun.ret]

\* The tuple _run_task puts for its task.
CompletionRecord(th) ==
    IF th.fun.raises
    THEN [index |-> th.index, rc |-> FALSE, result |-> StrOfException(th.fun.exc)]
    ELSE [index |-> th.index, rc |-> TRUE, result |-> th.fun.ret]

\* A put that enqueues the item twice.
QueuePutTwice(q, item) == q \o <<item, item>>

\* A put that replaces what the queue holds.
QueuePutReplacing(q, item) == <<item>>

\* Queue.put(item): the item joins the tail, nothing else moves.
QueuePut(q, item) == Append(q, item)

\* self.taskResults.put(...), in the try block or in the except block
TaskPut(k) ==
    /\ k \in 1..Len(tasks)
    /\ tasks[k].st = "called"
    /\ taskResults' = QueuePut(taskResults, CompletionRecord(tasks[k]))
    /\ tasks' = [tasks EXCEPT ![k].st = "put", ![k].putPos = Len(taskResults) + 1]
    /\ UNCHANGED <<taskIndex, pc, i, taskType, returnCodes, results, lastRun>>

\* The diagnostic the except block logs.
FailureLog(th) ==
    IF ~th.fun.raises THEN "none"
    ELSE IF Lower(LogLevel(th.log_level)) = "error" THEN "exception" ELSE "debug"

\* After the put: log, then return or raise originException; the thread ends.
TaskEnd(k) ==
    /\ k \in 1..Len(tasks)
    /\ tasks[k].st = "put"
    /\ tasks' = [tasks EXCEPT ![k].st = "done",
                              ![k].logged = FailureLog(tasks[k]),
                              ![k].escaped = tasks[k].fun.raises]
    /\ UNCHANGED <<taskIndex, taskResults, pc, i, taskType, returnCodes, results, lastRun>>

\* ---------------------------------------------------------- specification
Next ==
    \/ \E inp \in RegisterInputs : Register(inp[1], inp[2])
    \/ \E mode \in Modes : RunBegin(mode)
    \/ StartTask
    \/ StartTaskFails
    \/ JoinTask
    \/ Drain
    \/ Finish
    \/ \E k \in 1..MaxTasks : TaskCall(k)
    \/ \E k \in 1..MaxTasks : TaskPut(k)
    \/ \E k \in 1..MaxTasks : TaskEnd(k)

Spec == Init /\ [][Next]_vars

\* The same manager with the register calls drawn to vary log_level: one
\* failing callable under every spelling of the option, and a succeeding one.
LogInputs ==
    { <<FunRaises("boom", Exc("ValueError", <<"boom">>)), "absent">>,
      <<FunRaises("boom", Exc("ValueError", <<"boom">>)), "error">>,
      <<FunRaises("boom", Exc("ValueError", <<"boom">>)), "ERROR">>,
      <<FunRaises("boom", Exc("ValueError", <<"boom">>)), "debug">>,
      <<FunReturns("one", 1), "debug">> }

RegisterLog(fun, level) == Len(tasks) < MaxLogTasks /\ Register(fun, level)

NextLog ==
    \/ \E inp \in LogInputs : RegisterLog(inp[1], inp[2])
    \/ \E mode \in Modes : RunBegin(mode)
    \/ StartTask
    \/ StartTaskFails
    \/ JoinTask
    \/ Drain
    \/ Finish
    \/ \E k \in 1..MaxLogTasks : TaskCall(k)
    \/ \E k \in 1..MaxLogTasks : TaskPut(k)
    \/ \E k \in 1..MaxLogTasks : TaskEnd(k)

SpecLog == Init /\ [][NextLog]_vars

\* The manager under a fair scheduler: a thread that can take a step takes
\* it in the end, every callable comes to its end, and the caller goes on
\* whenever it is not blocked in join().  A start() may still fail.
RegisterLive(fun, level) == Len(tasks) < MaxLiveTasks /\ Register(fun, level)

NextLive ==
    \/ \E inp \in RegisterInputs : RegisterLive(inp[1], inp[2])
    \/ \E mode \in Modes : RunBegin(mode)
    \/ StartTask
    \/ StartTaskFails
    \/ JoinTask
    \/ Drain
    \/ Finish
    \/ \E k \in 1..MaxLiveTasks : TaskCall(k)
    \/ \E k \in 1..MaxLiveTasks : TaskPut(k)
    \/ \E k \in 1..MaxLiveTasks : TaskEnd(k)

Fairness ==
    /\ WF_vars(StartTask \/ StartTaskFails)
    /\ WF_vars(JoinTask)
    /\ WF_vars(Drain)
    /\ WF_vars(Finish)
    /\ \A k \in 1..MaxLiveTasks :
          WF_vars(TaskCall(k)) /\ WF_vars(TaskPut(k)) /\ WF_vars(TaskEnd(k))

SpecLive == Init /\ [][NextLive]_vars /\ Fairness

\* ----------------------------------------------------------------- claims
\* What each callable of RegisterInputs does, written out: the (succeeded,
\* payload) pair its task must be recorded with.
Expected(fun) ==
    CASE fun.name = "one" -> <<TRUE, PyInt(1)>>
      [] fun.name = "three" -> <<TRUE, PyInt(3)>>
      [] fun.name = "boom" -> <<FALSE, PyStr("boom")>>

Returned == lastRun.kind = "returned"
Batch == lastRun.batch

\* C1 (barrier): while runMultiTasks drains the queue, and when it has
\* returned, every thread of the batch has terminated.
C1_Barrier ==
    /\ pc = "reducing" => \A k \in 1..Len(tasks) : tasks[k].st = "done"
    /\ Returned => \A k \in 1..Len(Batch) : Batch[k].st = "done"

\* A run of three tasks has returned.
C1_Witness == Returned /\ pc = "returned" /\ Len(Batch) = 3

\* C2 (order restoration): in TASK_RETURN_VALUES mode the returned list has
\* one element per registered task and its n-th element is the outcome of
\* the n-th registered task, whatever order the tasks completed in.
C2_RegistrationOrder ==
    (Returned /\ lastRun.mode = TASK_RETURN_VALUES) =>
        /\ Len(lastRun.retList) = Len(Batch)
        /\ \A n \in 1..Len(Batch) : lastRun.retList[n] = Expected(Batch[n].fun)

\* Three tasks completed in the reverse of their registration order and the
\* list came back in registration order.
C2_Witness ==
    /\ Returned /\ lastRun.mode = TASK_RETURN_VALUES /\ Len(Batch) = 3
    /\ Batch[1].putPos = 3 /\ Batch[2].putPos = 2 /\ Batch[3].putPos = 1
    /\ Batch[1].fun.name = "one" /\ Batch[3].fun.name = "three"
    /\ lastRun.retList[1] = <<TRUE, PyInt(1)>>
    /\ lastRun.retList[3] = <<TRUE, PyInt(3)>>

\* C3 (aggregate): in TASK_NO_RETURN mode the returned boolean is true
\* exactly when no task of the batch raised.
C3_AggregateBoolean ==
    (Returned /\ lastRun.mode = TASK_NO_RETURN) =>
        (lastRun.retBool <=> \A n \in 1..Len(Batch) : ~Batch[n].fun.raises)

\* A batch in which the last task to complete succeeded and an earlier one
\* failed returned false.
C3_Witness ==
    /\ Returned /\ lastRun.mode = TASK_NO_RETURN /\ ~lastRun.retBool
    /\ \E a, b \in 1..Len(Batch) :
          /\ Batch[a].fun.raises /\ ~Batch[b].fun.raises
          /\ Batch[a].putPos < Batch[b].putPos /\ Batch[b].putPos = Len(Batch)

\* Indices of the records held by a queue.
QueueIndices(q) == {q[n].index : n \in 1..Len(q)}

\* C4 (sink): from the end of the barrier to the end of the drain, the
\* records still queued and those already drained are one record for each
\* index 1..N, no thread can still deposit, and the drain loop gets N records.
C4_SinkExactlyN ==
    /\ pc = "reducing" =>
          /\ Len(taskResults) + Len(returnCodes) = Len(tasks)
          /\ Cardinality(QueueIndices(taskResults)) = Len(taskResults)
          /\ Cardinality(DOMAIN results) = Len(returnCodes)
          /\ QueueIndices(taskResults) \cap DOMAIN results = {}
          /\ QueueIndices(taskResults) \cup DOMAIN results = 1..Len(tasks)
          /\ \A k \in 1..Len(tasks) : tasks[k].st \notin {"new", "running", "called"}
    /\ Returned => lastRun.drained = Len(Batch)

\* The barrier has just completed for three tasks: nothing is drained yet.
C4_Witness ==
    pc = "reducing" /\ returnCodes = <<>> /\ Len(tasks) = 3 /\ Len(taskResults) = 3

\* C5 (failure isolation): every record in the queue and in the drained
\* dict is the outcome of its own task's callable, and when run returns
\* every task of the batch was invoked and ran to its end, failed siblings
\* or not.
C5_FailureIsolation ==
    /\ \A n \in 1..Len(taskResults) :
          /\ taskResults[n].index \in 1..Len(tasks)
          /\ <<taskResults[n].rc, taskResults[n].result>>
                = Expected(tasks[taskResults[n].index].fun)
    /\ \A k \in DOMAIN results : results[k] = Expected(tasks[k].fun)
    /\ Returned => \A k \in 1..Len(Batch) : Batch[k].calls = 1 /\ Batch[k].st = "done"
    /\ (Returned /\ lastRun.mode = TASK_RETURN_VALUES) =>
          \A k \in 1..Len(Batch) :
              /\ lastRun.retList[k][1] = ~Batch[k].fun.raises
              /\ ~Batch[k].fun.raises => lastRun.retList[k][2] = Batch[k].fun.ret

\* Tasks returning 1, raising "boom", returning 3; the failing one completed
\* first; the result is [(True, 1), (False, 'boom'), (True, 3)].
C5_Witness ==
    /\ Returned /\ lastRun.mode = TASK_RETURN_VALUES /\ Len(Batch) = 3
    /\ Batch[1].fun.name = "one" /\ Batch[2].fun.name = "boom"
    /\ Batch[3].fun.name = "three" /\ Batch[2].putPos = 1
    /\ lastRun.retList
         = << <<TRUE, PyInt(1)>>, <<FALSE, PyStr("boom")>>, <<TRUE, PyInt(3)>> >>

\* The errors Thread.start() raises.
StartErrors == {"can't start new thread", "threads can only be started once"}

\* C6 (no propagation): once every thread is started the call never ends by
\* raising; runMultiTasks raises only for a taskType that is not None, 0 or
\* 1, or because a start() failed; and when it returns, each task whose
\* callable raised has re-raised inside its own thread.
C6_TaskFailureStaysInThread ==
    [][/\ pc \in {"joining", "reducing"} => pc' \in {"joining", "reducing", "returned"}
       /\ (pc' = "raised" /\ lastRun' # lastRun) =>
            \/ lastRun'.error \in StartErrors
            \/ lastRun'.mode \notin {NONE, 0, 1}
       /\ (pc = "reducing" /\ pc' = "returned") =>
            /\ lastRun'.kind = "returned"
            /\ \A k \in 1..Len(tasks) : tasks[k].escaped <=> tasks[k].fun.raises]_vars

\* RETURN_VALUES run returned although two of its tasks raised in their threads.
C6_Witness ==
    /\ Returned /\ pc = "returned" /\ lastRun.mode = TASK_RETURN_VALUES
    /\ \E a, b \in 1..Len(Batch) : a # b /\ Batch[a].escaped /\ Batch[b].escaped

\* What was registered, apart from how far each thread has run.
Registered(ts) == [k \in 1..Len(ts) |-> <<ts[k].fun, ts[k].log_level, ts[k].index>>]

\* A step in which runMultiTasks rejects its taskType.
RejectStep == pc \in Outside /\ pc' = "raised" /\ lastRun' # lastRun

\* C7 (configuration error): a taskType other than None, 0 or 1 makes
\* runMultiTasks raise MultiTasksManagerError, with no thread started, no
\* callable invoked and no record deposited.
C7_RaisesMultiTasksManagerError ==
    [][RejectStep =>
          /\ lastRun'.error = "MultiTasksManagerError"
          /\ tasks' = tasks
          /\ taskResults' = taskResults]_vars

\* C8 (rejection keeps the batch): the rejecting call leaves the task list,
\* the index counter and the queue as they were, and the next call with a
\* valid taskType enters dispatch over that same task list from its first task.
C8_RejectionKeepsBatch ==
    [][/\ RejectStep =>
            (tasks' = tasks /\ taskIndex' = taskIndex /\ taskResults' = taskResults)
       /\ (pc = "raised" /\ lastRun.error = RejectedModeError
              /\ pc' \in {"starting", "reducing"}) =>
            /\ tasks' = tasks /\ taskIndex' = taskIndex /\ taskResults' = taskResults
            /\ Registered(tasks) = Registered(lastRun.batch)
            /\ i' = 1
            /\ pc' = "reducing" <=> Len(tasks) = 0]_vars

\* A call was rejected with two tasks registered, none of them started.
C8_Witness ==
    /\ pc = "raised" /\ lastRun.error = RejectedModeError
    /\ Len(tasks) = 2 /\ taskIndex = 3 /\ taskResults = <<>>
    /\ \A k \in 1..2 : tasks[k].st = "new" /\ tasks[k].calls = 0

\* C9 (unconditional reset): when runMultiTasks has returned, in either mode
\* and whatever failed, the task list is empty, the index counter is 1 and
\* the queue is empty.
C9_ResetOnReturn ==
    pc = "returned" => (tasks = <<>> /\ taskIndex = 1 /\ taskResults = <<>>)

\* NO_RETURN run with a failed task has returned false.
C9_Witness ==
    /\ pc = "returned" /\ Returned /\ lastRun.mode = TASK_NO_RETURN
    /\ ~lastRun.retBool /\ Len(Batch) >= 2

\* A step in which register appends a task.
RegisterStep == Len(tasks') = Len(tasks) + 1
NewIndex == tasks'[Len(tasks')].index

\* C10 as written: the first register after any runMultiTasks call that
\* returned or that rejected its taskType is assigned index 1.
C10_IndexOneAfterAnyRun ==
    [][(RegisterStep /\ pc \in {"returned", "raised"}
          /\ lastRun.error \notin StartErrors) => NewIndex = 1]_vars

\* C10 amended: the first register after a call that returned is assigned
\* index 1 and is alone in an otherwise empty manager; the first register
\* after a call that rejected its taskType continues the pending batch: it is
\* assigned the index after those of the tasks still registered.
C10_IndexAfterRun ==
    [][/\ (RegisterStep /\ pc = "returned") =>
            /\ NewIndex = 1
            /\ Len(tasks') = 1
            /\ taskResults' = <<>>
       /\ (RegisterStep /\ pc = "raised" /\ lastRun.error = RejectedModeError) =>
            /\ NewIndex = Len(lastRun.batch) + 1
            /\ SubSeq(tasks', 1, Len(tasks)) = tasks]_vars

\* The first task registered after a run that returned.
C10_Witness ==
    /\ pc = "idle" /\ lastRun.kind = "returned"
    /\ Len(tasks) = 1 /\ tasks[1].index = 1 /\ taskIndex = 2

\* Records with index k that a queue holds.
CountIn(q, k) == Cardinality({n \in 1..Len(q) : q[n].index = k})

\* Threads that have made their put.
Deposited == {k \in 1..Len(tasks) : tasks[k].st \in {"put", "done"}}

\* C11 (exactly once): a thread that has not reached its put has no record,
\* one that has made it has exactly one until the drain takes it, queued and
\* drained records together are one per thread that has put, and the
\* failure diagnostic and the re-raise come only after the put, on the
\* success path and on the failure path alike.
C11_ExactlyOneDeposit ==
    /\ \A k \in 1..Len(tasks) :
          /\ CountIn(taskResults, k) <= 1
          /\ tasks[k].st \in {"new", "running", "called"} =>
                (CountIn(taskResults, k) = 0 /\ k \notin DOMAIN results)
          /\ (tasks[k].st \in {"put", "done"} /\ pc # "reducing") =>
                CountIn(taskResults, k) = 1
          /\ (tasks[k].logged # "none" \/ tasks[k].escaped) =>
                (tasks[k].st = "done" /\ tasks[k].putPos >= 1)
          /\ tasks[k].st = "done" => (tasks[k].escaped <=> tasks[k].fun.raises)
    /\ Len(taskResults) + Len(returnCodes) = Cardinality(Deposited)

\* A failing thread has ended by re-raising, a succeeding one has ended by
\* returning, and each has its one record in the queue.
C11_Witness ==
    /\ pc = "joining"
    /\ \E a, b \in 1..Len(tasks) :
          /\ tasks[a].st = "done" /\ tasks[a].escaped /\ tasks[a].logged = "exception"
          /\ tasks[b].st = "done" /\ ~tasks[b].escaped
          /\ CountIn(taskResults, a) = 1 /\ CountIn(taskResults, b) = 1

\* C12 (default mode): a call without a taskType argument is never rejected
\* and returns what runMultiTasks(TASK_NO_RETURN) returns: the boolean that
\* is true exactly when no task of the batch raised, true for an empty batch.
C12_DefaultIsNoReturn ==
    /\ (Returned /\ pc = "returned" /\ lastRun.arg = NONE) =>
          /\ lastRun.mode = TASK_NO_RETURN
          /\ lastRun.retList = <<>>
          /\ lastRun.retBool <=> \A n \in 1..Len(Batch) : Expected(Batch[n].fun)[1]
          /\ Len(Batch) = 0 => lastRun.retBool
    /\ (pc \in {"starting", "joining", "reducing"} /\ lastRun.arg = NONE) =>
          taskType = TASK_NO_RETURN
    /\ (pc = "raised" /\ lastRun.mode = NONE) => lastRun.error \in StartErrors

\* A call without argument returned false for a batch with a failed task.
C12_Witness ==
    /\ Returned /\ pc = "returned" /\ lastRun.arg = NONE
    /\ Len(Batch) >= 2 /\ ~lastRun.retBool

\* A call without argument returned true with no task registered.
C12_EmptyBatchWitness ==
    Returned /\ pc = "returned" /\ lastRun.arg = NONE /\ Len(Batch) = 0 /\ lastRun.retBool

\* C13 (index assignment): the k-th pending task carries index k, so the
\* pending tasks carry 1..N in registration order, and the index counter is
\* the number of pending tasks plus one.
C13_DenseIndices ==
    /\ \A k \in 1..Len(tasks) : tasks[k].index = k
    /\ taskIndex = Len(tasks) + 1

\* Three registrations have been made, none dispatched.
C13_Witness ==
    /\ pc = "idle" /\ Len(tasks) = 3 /\ taskIndex = 4
    /\ \A k \in 1..3 : tasks[k].st = "new"

\* C14 (consumed once): no callable is ever invoked twice, a thread has been
\* invoked exactly when it has passed its call, a rejected call invokes
\* nothing, a start only ever starts a thread that never ran, and when a run
\* returns every task registered before it has been invoked exactly once
\* and none of them stays pending for a later run.
C14_InvokedOnce ==
    [][/\ \A k \in 1..Len(tasks) :
            /\ tasks[k].calls <= 1
            /\ tasks[k].calls = 1 <=> tasks[k].st \in {"called", "put", "done"}
       /\ \A k \in 1..Len(tasks) :
            (Len(tasks') = Len(tasks) /\ tasks'[k].st = "running" /\ tasks[k].st # "running")
               => (tasks[k].st = "new" /\ tasks[k].calls = 0)
       /\ RejectStep => tasks' = tasks
       /\ (pc = "reducing" /\ pc' = "returned") =>
            /\ \A k \in 1..Len(tasks) : tasks[k].calls = 1
            /\ tasks' = <<>>]_vars

\* A run has returned with each of its two tasks invoked once and none of
\* them pending any more.
C14_Witness ==
    /\ Returned /\ pc = "returned" /\ Len(Batch) = 2 /\ tasks = <<>>
    /\ \A k \in 1..2 : Batch[k].calls = 1

\* Every order in which the records of q could have arrived.
Arrivals(q) ==
    LET n == Len(q)
        perms == {p \in [1..n -> 1..n] : \A a, b \in 1..n : a # b => p[a] # p[b]}
    IN {[k \in 1..n |-> q[p[k]]] : p \in perms}

\* The value the drain would end with from the current locals if the queue
\* held q.
ValueFrom(t, q) ==
    LET end == DrainAll(q, returnCodes, results) IN ReturnValue(t, end.codes, end.dict)

\* The records of a batch put in registration order.
InRegistrationOrder(ts) == [k \in 1..Len(ts) |-> CompletionRecord(ts[k])]

\* C15 (determinism): threads are started in registration order; whatever
\* order the records arrived in, the drain ends with the same value in both
\* modes; and the value a run returns is the one it would return had the
\* tasks completed in registration order.
C15_SameValueAnyInterleaving ==
    /\ \A j, k \in 1..Len(tasks) :
          (j < k /\ tasks[k].st # "new") => tasks[j].st # "new"
    /\ pc = "reducing" =>
          \A q \in Arrivals(taskResults) :
              \A t \in {TASK_NO_RETURN, TASK_RETURN_VALUES} :
                  ValueFrom(t, q) = ValueFrom(t, taskResults)
    /\ (Returned /\ pc = "returned") =>
          LET end == DrainAll(InRegistrationOrder(Batch), <<>>, <<>>)
              value == ReturnValue(lastRun.mode, end.codes, end.dict)
          IN lastRun.retBool = value.b /\ lastRun.retList = value.l

\* RETURN_VALUES drain about to begin on three records that arrived in the
\* order 2, 3, 1, the second task having failed.
C15_Witness ==
    /\ pc = "reducing" /\ taskType = TASK_RETURN_VALUES /\ returnCodes = <<>>
    /\ Len(taskResults) = 3
    /\ taskResults[1].index = 2 /\ taskResults[2].index = 3 /\ taskResults[3].index = 1
    /\ ~taskResults[1].rc

\* A step of one execution unit: some thread moves on and the caller does not.
UnitStep == pc' = pc /\ i' = i /\ Len(tasks') = Len(tasks) /\ tasks' # tasks

\* C16 (frame): a step of an execution unit moves one thread only, leaves
\* what is registered, the index counter and the caller's locals as they
\* were, and leaves the queue alone or appends one record to it; the queue
\* shrinks only by a step of the caller's drain loop.
C16_UnitTouchesOnlyQueueTail ==
    [][/\ UnitStep =>
            /\ taskIndex' = taskIndex
            /\ Registered(tasks') = Registered(tasks)
            /\ Cardinality({k \in 1..Len(tasks) : tasks'[k] # tasks[k]}) = 1
            /\ UNCHANGED <<taskType, returnCodes, results, lastRun>>
            /\ Len(taskResults') \in {Len(taskResults), Len(taskResults) + 1}
            /\ SubSeq(taskResults', 1, Len(taskResults)) = taskResults
       /\ Len(taskResults') < Len(taskResults) =>
            (pc = "reducing" /\ tasks' = tasks /\ taskResults' = Tail(taskResults))]_vars

\* Two units have deposited while the third still runs; the task list and
\* the counter are as register left them.
C16_Witness ==
    /\ pc = "joining" /\ Len(tasks) = 3 /\ taskIndex = 4
    /\ Len(taskResults) = 2 /\ tasks[3].st = "running"
    /\ taskResults[1].index = 2 /\ taskResults[2].index = 1

\* C17 (start failure): the start loop is left only for the join loop or by
\* a start() error that reaches the caller; the call then ends raised, with
\* no value returned, no drain and no reset.
C17_StartFailurePropagates ==
    [][(pc = "starting" /\ pc' \notin {"starting", "joining"}) =>
          /\ pc' = "raised"
          /\ lastRun'.kind = "raised"
          /\ lastRun'.error \in StartErrors
          /\ lastRun'.retList = <<>>
          /\ UNCHANGED <<tasks, taskIndex, taskResults, returnCodes, results>>]_vars

\* The third thread could not be started: the call has raised with the
\* first two threads started and all three tasks still registered.
C17_Witness ==
    /\ pc = "raised" /\ lastRun.kind = "raised"
    /\ lastRun.error = "can't start new thread"
    /\ Len(tasks) = 3 /\ tasks[1].st # "new" /\ tasks[2].st # "new" /\ tasks[3].st = "new"

\* What a run returns, from what its callables do alone.
ValueByCallables(mode, ts) ==
    [b |-> IF mode = TASK_NO_RETURN
           THEN \A n \in 1..Len(ts) : Expected(ts[n].fun)[1] ELSE TRUE,
     l |-> IF mode = TASK_NO_RETURN
           THEN <<>> ELSE [n \in 1..Len(ts) |-> Expected(ts[n].fun)]]

\* The records and the returned value do not depend on log_level, and a
\* diagnostic is logged by failing tasks only, on their way out.
LogLevelLeavesDataAlone ==
    /\ \A n \in 1..Len(taskResults) :
          <<taskResults[n].rc, taskResults[n].result>>
              = Expected(tasks[taskResults[n].index].fun)
    /\ (Returned /\ pc = "returned") =>
          /\ lastRun.retBool = ValueByCallables(lastRun.mode, Batch).b
          /\ lastRun.retList = ValueByCallables(lastRun.mode, Batch).l
    /\ \A k \in 1..Len(tasks) :
          /\ tasks[k].st # "done" => tasks[k].logged = "none"
          /\ (tasks[k].st = "done" /\ ~tasks[k].fun.raises) => tasks[k].logged = "none"
          /\ (tasks[k].st = "done" /\ tasks[k].fun.raises) =>
                tasks[k].logged \in {"exception", "debug"}

InRun == pc \in {"starting", "joining", "reducing"}

\* C19 (termination): under the fair scheduler a call with a valid taskType
\* comes to an end, by returning once every thread was started (or at once
\* for an empty batch) and otherwise by a start() error; the caller is
\* blocked nowhere but in join() on a thread that has not ended; and the
\* call has never returned while a thread of the batch had not ended.
C19_RunTerminates ==
    /\ InRun ~> (pc \in {"returned", "raised"})
    /\ (pc \in {"joining", "reducing"}) ~> (pc = "returned")
    /\ [](InRun =>
            \/ ENABLED (StartTask \/ StartTaskFails \/ JoinTask \/ Drain \/ Finish)
            \/ pc = "joining" /\ tasks[i].st # "done")
    /\ []((Returned /\ pc = "returned") =>
            \A k \in 1..Len(Batch) : Batch[k].st = "done")

\* A run of two tasks, one of which raised, has returned.
C19_Witness ==
    /\ Returned /\ pc = "returned" /\ Len(Batch) = 2
    /\ Batch[1].fun.raises /\ ~Batch[2].fun.raises
    /\ Batch[1].st = "done" /\ Batch[2].st = "done"

====
